---- MODULE Spec2Model ----
(***************************************************************************)
(* A model of the diff-aware coverage report of coveragepy:                *)
(*   coverage/diff.py    parse_range_info, unchanged_blocks                *)
(*   coverage/report.py  format_range, SummaryReporter._report_diff        *)
(*                                                                         *)
(* Text is modelled in two ways.  Hunk range tokens are sequences of       *)
(* one-character strings and are parsed digit by digit.  Report text is    *)
(* modelled by the attributes the renderer reads from it: its length, and  *)
(* whether it strips to the empty string.                                  *)
(***************************************************************************)
EXTENDS Integers, Sequences, FiniteSets, TLC

(***************************************************************************)
(* Bounds of the model.                                                    *)
(***************************************************************************)
MaxNum    == 12   \* largest number written in a range token (SpecParse)
MaxHunks  == 2    \* hunks per changed file
MaxGap    == 1    \* unchanged lines between two hunks / after the last
MaxSize   == 1    \* lines removed or added by one hunk
MaxCalls  == 3    \* calls of unchanged_blocks in one run
MaxChanges == 1   \* working-tree changes in one run
MaxRows   == 2    \* runs of rows in lines_values
BigCopies == 300  \* rows in a long run of rows of one shape
MaxSrcLines == 6  \* lines of a source file (SpecSnippet)

(***************************************************************************)
(* Generic helpers.                                                        *)
(***************************************************************************)
Abs(n) == IF n < 0 THEN -n ELSE n

Max2(a, b) == IF a > b THEN a ELSE b

Min2(a, b) == IF a < b THEN a ELSE b

RECURSIVE SumSeq(_)
SumSeq(s) == IF s = <<>> THEN 0 ELSE Head(s) + SumSeq(Tail(s))

Last(s) == s[Len(s)]

\* The element of a set of one element: The({e(x) : x \in {v}}) is e(v), with
\* v evaluated once.
The(S) == CHOOSE x \in S : TRUE

(***************************************************************************)
(* Decimal text.  Str is Python's str(int) for n >= 0, PyInt is Python's   *)
(* int(str) for an optionally signed decimal numeral.                      *)
(***************************************************************************)
DigitChars == <<"0", "1", "2", "3", "4", "5", "6", "7", "8", "9">>

DigitVal(c) == CHOOSE d \in 0..9 : DigitChars[d + 1] = c

RECURSIVE Str(_)
Str(n) == IF n < 10 THEN <<DigitChars[n + 1]>>
          ELSE Append(Str(n \div 10), DigitChars[(n % 10) + 1])

RECURSIVE Digits2Nat(_)
Digits2Nat(s) == IF s = <<>> THEN 0
                 ELSE 10 * Digits2Nat(SubSeq(s, 1, Len(s) - 1)) + DigitVal(Last(s))

PyInt(s) == IF Head(s) = "-" THEN 0 - Digits2Nat(Tail(s))
          ELSE IF Head(s) = "+" THEN Digits2Nat(Tail(s))
          ELSE Digits2Nat(s)

HasComma(s) == \E i \in 1..Len(s) : s[i] = ","

CommaAt(s) == CHOOSE i \in 1..Len(s) : s[i] = ","

\* range_info.split(",") for a token that holds one comma
SplitComma(s) == <<SubSeq(s, 1, CommaAt(s) - 1), SubSeq(s, CommaAt(s) + 1, Len(s))>>

(***************************************************************************)
(* diff.py: parse_range_info.  The token is returned as <<offset, size>>.  *)
(***************************************************************************)
parse_range_info(range_info) ==
    IF range_info = <<"0", ",", "0">> THEN <<1 - 1, 1>>
    ELSE IF HasComma(range_info)
         THEN LET parts == SplitComma(range_info)
                  size  == Abs(PyInt(parts[1]))
                  start == PyInt(parts[2])
              IN  <<start - 1, size>>
         ELSE <<PyInt(range_info) - 1, 1>>

(***************************************************************************)
(* The repository the mapper runs in.  A path is the sequence of its       *)
(* segments; Python's None is the path of no segments.                     *)
(***************************************************************************)
None == <<>>

FileA == <<"a.py">>

FileB == <<"pkg", "m.py">>

FileOrder == <<FileA, FileB>>

Files == {FileOrder[i] : i \in 1..Len(FileOrder)}

\* Names of base revisions; all of them, once they exist, name the same commit.
Revs == {"main", "topic"}

\* One step of an edit script: `gap` unchanged lines, then bs base lines
\* replaced by cs current lines.
Steps == {s \in [gap : 0..MaxGap, bs : 0..MaxSize, cs : 0..MaxSize] : s.bs + s.cs > 0}

Scripts == UNION {{sc \in [1..k -> Steps] : \A i \in 2..k : sc[i].gap >= 1} : k \in 0..MaxHunks}

\* The hunks of an edit script, zero-based: lines [base_start, base_start +
\* base_size) of the base are replaced by lines [curr_start, curr_start +
\* curr_size) of the working tree.
RECURSIVE HunksOf(_, _, _)
HunksOf(steps, bo, co) ==
    IF steps = <<>> THEN <<>>
    ELSE LET s == Head(steps)
         IN  <<[base_start |-> bo + s.gap, base_size |-> s.bs,
                curr_start |-> co + s.gap, curr_size |-> s.cs]>>
             \o HunksOf(Tail(steps), bo + s.gap + s.bs, co + s.gap + s.cs)

BaseEnd(hunks) == IF hunks = <<>> THEN 0 ELSE Last(hunks).base_start + Last(hunks).base_size

CurrEnd(hunks) == IF hunks = <<>> THEN 0 ELSE Last(hunks).curr_start + Last(hunks).curr_size

\* The state of one path: base is its line count at the base commit (-1:
\* absent there), wt says what the working tree holds at the path, curr is
\* the line count of the working-tree file.
ModifiedBy(hunks, tail) ==
    [inDiff |-> TRUE, base |-> BaseEnd(hunks) + tail, wt |-> "file",
     curr |-> CurrEnd(hunks) + tail, hunks |-> hunks]

Modified(steps, tail) == ModifiedBy(HunksOf(steps, 0, 0), tail)

Unchanged(n) == [inDiff |-> FALSE, base |-> n, wt |-> "file", curr |-> n, hunks |-> <<>>]

Absent == [inDiff |-> FALSE, base |-> -1, wt |-> "missing", curr |-> 0, hunks |-> <<>>]

Added(n) ==
    [inDiff |-> TRUE, base |-> -1, wt |-> "file", curr |-> n,
     hunks |-> IF n = 0 THEN <<>>
               ELSE <<[base_start |-> 0, base_size |-> 0, curr_start |-> 0, curr_size |-> n]>>]

\* The path is gone from the working tree (wt = "missing"), or holds
\* something that is not a readable file, such as a directory
\* (wt = "unreadable"); git reports both as a deletion.
Removed(n, how) ==
    [inDiff |-> TRUE, base |-> n, wt |-> how, curr |-> 0,
     hunks |-> IF n = 0 THEN <<>>
               ELSE <<[base_start |-> 0, base_size |-> n, curr_start |-> 0, curr_size |-> 0]>>]

ModifiedStates == {Modified(sc, t) : sc \in Scripts, t \in 0..MaxGap}

OtherStates == {Unchanged(MaxGap), Absent, Added(MaxSize), Added(0),
                Removed(MaxSize, "missing"), Removed(MaxSize, "unreadable")}

(***************************************************************************)
(* git diff --unified=0: the text of one range, and the stream of lines.   *)
(* A line is kept as the prefix the parse loop tests and the fields it     *)
(* reads: the last word of a "diff --git" line, the two range tokens of    *)
(* a hunk header.                                                          *)
(***************************************************************************)
GitRange(sign, off, size) ==
    IF size = 0 THEN <<sign>> \o Str(off) \o <<",", "0">>
    ELSE IF size = 1 THEN <<sign>> \o Str(off + 1)
    ELSE <<sign>> \o Str(off + 1) \o <<",">> \o Str(size)

Line(prefix, lastWord, base, curr) ==
    [prefix |-> prefix, lastWord |-> lastWord, base |-> base, curr |-> curr]

RECURSIVE Repeat(_, _)
Repeat(x, n) == IF n = 0 THEN <<>> ELSE <<x>> \o Repeat(x, n - 1)

RECURSIVE HunkLines(_)
HunkLines(hunks) ==
    IF hunks = <<>> THEN <<>>
    ELSE LET h == Head(hunks)
         IN  <<Line("@@", <<>>, GitRange("-", h.base_start, h.base_size),
                    GitRange("+", h.curr_start, h.curr_size))>>
             \o Repeat(Line("-", <<>>, <<>>, <<>>), h.base_size)
             \o Repeat(Line("+", <<>>, <<>>, <<>>), h.curr_size)
             \o HunkLines(Tail(hunks))

FileSection(f, st) ==
    IF ~st.inDiff THEN <<>>
    ELSE <<Line("diff --git", <<"b">> \o f, <<>>, <<>>), Line("index", <<>>, <<>>, <<>>)>>
         \o (IF st.hunks = <<>> THEN <<>>
             ELSE <<Line("-", <<>>, <<>>, <<>>), Line("+", <<>>, <<>>, <<>>)>>)
         \o HunkLines(st.hunks)

RECURSIVE GitDiffFrom(_, _)
GitDiffFrom(tree, i) ==
    IF i > Len(FileOrder) THEN <<>>
    ELSE FileSection(FileOrder[i], tree[FileOrder[i]]) \o GitDiffFrom(tree, i + 1)

GitDiffOutput(tree) == GitDiffFrom(tree, 1)

\* git show base:path, as the number of lines read; -1 is CalledProcessError.
GitShow(tree, path) == IF path \in Files THEN tree[path].base ELSE -1

\* pathlib.Path(path).read_text(): "ok", "FileNotFoundError" or another
\* OSError ("OSError": IsADirectoryError, PermissionError).
ReadText(tree, path) ==
    IF path \notin Files \/ tree[path].wt = "missing" THEN "FileNotFoundError"
    ELSE IF tree[path].wt = "unreadable" THEN "OSError"
    ELSE "ok"

(***************************************************************************)
(* diff.py: unchanged_blocks.                                              *)
(***************************************************************************)
\* lines 42-55: the gap blocks and the cursors left after the last hunk.
\* A changed range is <<base_start, base_size, curr_start, curr_size>>.
RECURSIVE WalkRanges(_, _, _, _)
WalkRanges(changed_ranges, base_offset, curr_offset, blocks) ==
    IF changed_ranges = <<>>
    THEN [blocks |-> blocks, base_offset |-> base_offset, curr_offset |-> curr_offset]
    ELSE LET r    == Head(changed_ranges)
             size == r[1] - base_offset
         IN  WalkRanges(Tail(changed_ranges), r[1] + r[2], r[3] + r[4],
                        IF size > 0 THEN Append(blocks, <<base_offset, curr_offset, size>>)
                        ELSE blocks)

\* zip(*blocks): the three unzipped lists.
Unzip(blocks) ==
    <<[i \in 1..Len(blocks) |-> blocks[i][1]],
      [i \in 1..Len(blocks) |-> blocks[i][2]],
      [i \in 1..Len(blocks) |-> blocks[i][3]]>>

Put(map, key, value) ==
    [k \in (DOMAIN map) \cup {key} |-> IF k = key THEN value ELSE map[k]]

\* lines 57-69: len(base_file_content); a failing git show leaves it empty.
BaseLen(tree, curr_file) == Max2(0, GitShow(tree, curr_file))

\* lines 70-74: len(curr_file_content); only FileNotFoundError is caught.
CurrLen(tree, curr_file) ==
    IF curr_file # None /\ ReadText(tree, curr_file) = "ok" THEN tree[curr_file].curr ELSE 0

ReadRaises(tree, curr_file) == curr_file # None /\ ReadText(tree, curr_file) = "OSError"

\* lines 38-76.  st is the loop state [file_blocks, curr_file,
\* changed_ranges, raised].
compute_unchanged_blocks(st, tree) ==
    IF ReadRaises(tree, st.curr_file)
    THEN [st EXCEPT !.raised = TRUE]
    ELSE [st EXCEPT !.file_blocks =
              Put(st.file_blocks, st.curr_file,
                  Unzip(Append(IF st.curr_file # None
                               THEN WalkRanges(st.changed_ranges, 0, 0, <<>>).blocks
                               ELSE <<>>,
                               <<BaseLen(tree, st.curr_file),
                                 CurrLen(tree, st.curr_file), 0>>)))]

\* lines 82-83: the new current file, unless the flush raised.
StartFile(flushed, line) ==
    IF flushed.raised THEN flushed
    ELSE [flushed EXCEPT !.curr_file = Tail(line.lastWord), !.changed_ranges = <<>>]

\* lines 78-94: one line of the diff output.
ParseLine(st, line, tree) ==
    IF line.prefix = "diff --git"
    THEN StartFile(compute_unchanged_blocks(st, tree), line)
    ELSE IF line.prefix = "@@"
    THEN [st EXCEPT !.changed_ranges =
              Append(@, parse_range_info(line.base) \o parse_range_info(line.curr))]
    ELSE st

RECURSIVE ParseLoop(_, _, _)
ParseLoop(st, lines, tree) ==
    The({IF lines = <<>> \/ s.raised THEN s
         ELSE ParseLoop(ParseLine(s, Head(lines), tree), Tail(lines), tree) : s \in {st}})

\* lines 29-100: the body of unchanged_blocks, run when the cache misses.
\* gitOK says whether git diff exits with status 0.
LoopStart ==
    [file_blocks |-> <<>>, curr_file |-> None, changed_ranges |-> <<>>, raised |-> FALSE]

\* lines 96-98: the last file.
LastFile(st, tree) ==
    IF ~st.raised /\ st.curr_file # None THEN compute_unchanged_blocks(st, tree) ELSE st

Outcome(st) == [raised |-> st.raised, value |-> IF st.raised THEN <<>> ELSE st.file_blocks]

UnchangedBlocksBody(gitOK, tree) ==
    IF ~gitOK THEN [raised |-> TRUE, value |-> <<>>]
    ELSE The({Outcome(o) :
                 o \in {LastFile(st, tree) :
                           st \in {ParseLoop(LoopStart, GitDiffOutput(tree), tree)}}})

(***************************************************************************)
(* report.py.  A text is kept as its length; a source line also as whether *)
(* it consists of whitespace only (ws).                                    *)
(***************************************************************************)
LimitCollapsed == 256

LimitSame == 512

LimitNew == 1024

LineWidth == 128

Ceiling == 65536 - 1024

\* A source line of n characters of code, an empty line, a line of blanks.
Code(n) == [len |-> n, ws |-> FALSE]

EmptyLine == [len |-> 0, ws |-> TRUE]

Spaces(n) == [len |-> n, ws |-> TRUE]

\* len(str(n)) for an integer n.
IntLen(n) == IF n < 0 THEN 1 + Len(Str(0 - n)) ELSE Len(Str(n))

\* len of a path written with "/" between its segments.
RECURSIVE PathLen(_)
PathLen(path) ==
    IF path = <<>> THEN 0
    ELSE Len(Head(path)) + (IF Len(path) > 1 THEN 1 ELSE 0) + PathLen(Tail(path))

Has(header, item) == \E i \in 1..Len(header) : header[i] = item

\* lines 403-410: the captions; "D Miss" stands for the caption written
\* with a Greek delta, of the same length.
Header(base_report, show_missing) ==
    <<"Name", "Stmts", "Miss">>
    \o (IF base_report THEN <<"D Miss">> ELSE <<>>)
    \o <<"Cover">>
    \o (IF show_missing THEN <<"Missing">> ELSE <<>>)

\* lines 25-33: the span format_range prints, and whether it is bold.
format_range(r) ==
    [single |-> r.start = r.end - 1,
     first  |-> r.start + 1,
     last   |-> r.end,
     bold   |-> r.same_cov = "false"]

\* m.get("same_cov") is truthy: the key is there and holds True.
SameCov(m) == m.same_cov = "true"

\* A row collapsed as soon as none of its ranges holds same_cov False.
CollapseAbsentAsTrue(header, row) ==
    IF Has(header, "Missing")
    THEN \A k \in 1..Len(row.Missing) : row.Missing[k].same_cov # "false"
    ELSE (IF Has(header, "D Miss") THEN row.dMiss ELSE 0) <= 0

\* lines 235-237: whether the row goes to the collapsed table.
Collapse(header, row) ==
    IF Has(header, "Missing")
    THEN \A k \in 1..Len(row.Missing) : SameCov(row.Missing[k])
    ELSE (IF Has(header, "D Miss") THEN row.dMiss ELSE 0) <= 0

\* lines 242-260: the locator line of one range.
Locator(m, linked, prLen) ==
    LET single == m.start = m.end - 1
        nice   == IF single THEN IntLen(m.start) ELSE IntLen(m.start) + 1 + IntLen(m.end)
        many   == IF single THEN 0 ELSE 1
        text   == IF m.same_cov = "absent"
                  THEN Len("Missing coverage at line") + many + 1 + nice
                  ELSE IF m.same_cov = "true"
                  THEN Len("Was already missing at line") + many + 1 + nice
                  ELSE Len("New missing coverage at line") + many + 1 + nice + Len(" !")
        link   == prLen + Len("/files#diff-") + 64 + Len("R") + IntLen(m.start)
                  + Len("-R") + IntLen(m.end)
    IN  [phrase |-> IF m.same_cov = "absent" THEN "Missing coverage"
                    ELSE IF m.same_cov = "true" THEN "Was already missing"
                    ELSE "New missing coverage",
         single |-> single,
         first  |-> m.start,
         last   |-> m.end,
         linked |-> linked,
         len    |-> IF linked
                    THEN Len("<a href=\"") + link + Len("\">") + text + Len("</a>")
                    ELSE text]

\* The test of line 271 made on source[i] instead of the prefixed line.
SnippetLineBlankSource(source, i, start, end) ==
    [src     |-> i,
     missing |-> start <= i /\ i < end,
     span    |-> source[i + 1].ws,
     cut     |-> FALSE,
     len     |-> IF source[i + 1].ws THEN Len("<span/>")
                 ELSE (IF start <= i /\ i < end THEN Len("- ") ELSE Len(" "))
                      + source[i + 1].len]

\* lines 269-272: one line of the snippet window, from source[i].
SnippetLine(source, i, start, end) ==
    LET is_missing == start <= i /\ i < end
        s          == source[i + 1]
        blank      == ~is_missing /\ s.ws    \* not snippet_line.strip()
    IN  [src     |-> i,
         missing |-> is_missing,
         span    |-> blank,
         cut     |-> FALSE,
         len     |-> IF blank THEN Len("<span/>")
                     ELSE (IF is_missing THEN Len("- ") ELSE Len(" ")) + s.len]

\* lines 265-273: the window range(max(0, start - 1), min(end + 1, len(source))).
SnippetLines(source, start, end) ==
    LET lo == Max2(0, start - 1)
        hi == Min2(end + 1, Len(source))
    IN  [k \in 1..Max2(0, hi - lo) |-> SnippetLine(source, lo + k - 1, start, end)]

\* len("\n".join(lines))
RECURSIVE SumLen(_)
SumLen(lines) == IF lines = <<>> THEN 0 ELSE Head(lines).len + SumLen(Tail(lines))

JoinLen(lines) == IF lines = <<>> THEN 0 ELSE SumLen(lines) + Len(lines) - 1

\* line 276
Limit(collapse, m) ==
    IF collapse THEN LimitCollapsed ELSE IF SameCov(m) THEN LimitSame ELSE LimitNew

\* line 280: s[:128] + "..." if len(s) > 128 else s
CutLine(s) == IF s.len > LineWidth THEN [s EXCEPT !.len = LineWidth + Len("..."), !.cut = TRUE]
              ELSE s

Ellipsis == [src |-> -1, missing |-> FALSE, span |-> FALSE, cut |-> FALSE, len |-> Len("  ...")]

\* snippet_lines[:k] and snippet_lines[-k:]
FirstK(lines, k) == SubSeq(lines, 1, Min2(k, Len(lines)))

LastK(lines, k) == SubSeq(lines, Max2(1, Len(lines) - k + 1), Len(lines))

\* lines 275-287: the lines of the body, truncated when over the limit.
SnippetBody(lines, limit) ==
    IF JoinLen(lines) > limit
    THEN LET kept == FirstK(lines, limit \div LineWidth) \o <<Ellipsis>>
                     \o LastK(lines, limit \div LineWidth)
         IN  [k \in 1..Len(kept) |-> CutLine(kept[k])]
    ELSE lines

\* lines 289-294: the snippet, from its locator and the lines of its window.
SnippetOf(loc, lines, limit, short) ==
    IF short
    THEN [loc |-> loc, short |-> TRUE, window |-> <<>>, body |-> <<>>, truncated |-> FALSE,
          len |-> Len("<li>") + loc.len + Len("</li>")]
    ELSE [loc |-> loc, short |-> FALSE, window |-> lines, body |-> SnippetBody(lines, limit),
          truncated |-> JoinLen(lines) > limit,
          len |-> loc.len + Len("<pre lang=\"diff\">") + JoinLen(SnippetBody(lines, limit))
                  + Len("</pre>")]

\* lines 241-294: the snippet of one range.
Snippet(m, source, collapse, linked, prLen, short) ==
    SnippetOf(Locator(m, linked, prLen), SnippetLines(source, m.start, m.end),
              Limit(collapse, m), short)

\* The length of str(value) for the column `item` of a row.
ValueLen(row, item) ==
    IF item = "Name" THEN PathLen(row.Name)
    ELSE IF item = "Stmts" THEN IntLen(row.Stmts)
    ELSE IF item = "Miss" THEN IntLen(row.Miss)
    ELSE IF item = "D Miss" THEN IntLen(row.dMiss)
    ELSE IntLen(row.Cover)

\* lines 303-312: "<td align=left|right>value[%]</td>"
CellLen(item, valueLen) ==
    Len("<td align=") + (IF item = "Name" THEN Len("left") ELSE Len("right")) + Len(">")
    + valueLen + (IF item = "Cover" THEN Len("%") ELSE 0) + Len("</td>")

RECURSIVE CellsLen(_, _, _)
CellsLen(header, row, nameLen) ==
    IF header = <<>> THEN 0
    ELSE (IF Head(header) = "Missing" THEN 0
          ELSE CellLen(Head(header),
                       IF Head(header) = "Name" THEN nameLen ELSE ValueLen(row, Head(header))))
         + CellsLen(Tail(header), row, nameLen)

\* lines 296-301: the Name cell of a row that has a Missing column.
DetailsLen(row, snippets) ==
    Len("<details><summary>") + PathLen(row.Name) + Len("</summary><p>")
    + SumLen(snippets) + Len("</p></details>")

\* lines 303-318: the table line of a row.
RowLine(header, row, idx, collapse, snippets) ==
    [idx |-> idx, copies |-> row.copies, collapse |-> collapse, snippets |-> snippets,
     len |-> Len("<tr>")
             + CellsLen(header, row, IF Has(header, "Missing") THEN DetailsLen(row, snippets)
                                     ELSE PathLen(row.Name))
             + Len("</tr>")]

\* lines 240-291: the snippets of a row.
Snippets(header, row, collapse, linked, prLen, short) ==
    IF Has(header, "Missing")
    THEN [k \in 1..Len(row.Missing) |->
             Snippet(row.Missing[k], row.source, collapse, linked, prLen, short)]
    ELSE <<>>

\* lines 228-318: one row.  changed_file is `filename in unchanged_blocks(...)`.
RenderRow(header, row, idx, changed_file, prSet, prLen, short) ==
    RowLine(header, row, idx, Collapse(header, row),
            Snippets(header, row, Collapse(header, row), prSet /\ changed_file, prLen, short))

\* lines 217-223
RECURSIVE HeaderItemsLen(_)
HeaderItemsLen(header) ==
    IF header = <<>> THEN 0
    ELSE (IF Head(header) = "Missing" THEN 0
          ELSE Len("<th align=")
               + (IF Head(header) = "Name" THEN Len("left") ELSE Len("right")) + Len(">")
               + Len(Head(header)) + (IF Head(header) = "D Miss" THEN Len("&nbsp;") - 1 ELSE 0)
               + Len("</th>"))
         + HeaderItemsLen(Tail(header))

HeaderStrLen(header) == Len("<tr>") + HeaderItemsLen(header) + Len("</tr>")

\* lines 321-335: the TOTAL line; its values are those of TotalRow.
TotalRow == [Name |-> <<"TOTAL">>, Stmts |-> 20, Miss |-> 6, dMiss |-> 2, Cover |-> 70]

RECURSIVE TotalItemsLen(_)
TotalItemsLen(header) ==
    IF header = <<>> THEN 0
    ELSE (IF Head(header) = "Missing" THEN 0
          ELSE Len("<td align=")
               + (IF Head(header) = "Name" THEN Len("left") ELSE Len("right")) + Len(">")
               + Len("<b>") + ValueLen(TotalRow, Head(header))
               + (IF Head(header) = "Cover" THEN Len("%") ELSE 0) + Len("</b>")
               + Len("</td>"))
         + TotalItemsLen(Tail(header))

TotalLineLen(header) == Len("<tr>") + TotalItemsLen(header) + Len("</tr>")

\* The rows of lines_values rendered in order.  lines_values is kept as
\* runs: an entry stands for row.copies consecutive rows of the same shape.
RenderRows(header, lines_values, map, prSet, prLen, short) ==
    [i \in 1..Len(lines_values) |->
        RenderRow(header, lines_values[i], i, lines_values[i].Name \in DOMAIN map,
                  prSet, prLen, short)]

RECURSIVE SelectRows(_, _)
SelectRows(rendered, collapse) ==
    IF rendered = <<>> THEN <<>>
    ELSE (IF Head(rendered).collapse = collapse THEN <<Head(rendered)>> ELSE <<>>)
         \o SelectRows(Tail(rendered), collapse)

RECURSIVE RowsLen(_)
RowsLen(rendered) ==
    IF rendered = <<>> THEN 0
    ELSE Head(rendered).copies * Head(rendered).len + RowsLen(Tail(rendered))

TableOpenLen(header) ==
    Len("<table><thead>") + HeaderStrLen(header) + Len("</thead><tbody>")

\* lines 336-353: `result`, from the table lines of the rows.
ResultOf(header, rendered, short) ==
    [kind |-> "result", short |-> short,
     lines |-> SelectRows(rendered, FALSE),
     collapsed_lines |-> SelectRows(rendered, TRUE),
     len |-> TableOpenLen(header) + RowsLen(SelectRows(rendered, FALSE))
             + TotalLineLen(header) + Len("</tbody></table>")
             + (IF SelectRows(rendered, TRUE) # <<>>
                THEN Len("\n\n<details><summary>")
                     + Len("Files without new missing coverage") + Len("</summary>\n")
                     + TableOpenLen(header) + RowsLen(SelectRows(rendered, TRUE))
                     + Len("</tbody></table>") + Len("</details>")
                ELSE 0)]

\* lines 217-353: the document `result`.
Document(header, lines_values, map, prSet, prLen, short) ==
    The({ResultOf(header, rendered, short) :
            rendered \in {RenderRows(header, lines_values, map, prSet, prLen, short)}})

\* Line 355 without the size test.
TooLargeNever(short, result) == FALSE

\* Line 355 with the size tested in short mode too.
TooLargeAlways(short, result) == result.len > Ceiling

\* line 355
TooLarge(short, result) == ~short /\ result.len > Ceiling

(***************************************************************************)
(* State.                                                                  *)
(***************************************************************************)
VARIABLES
    tok,        \* SpecParse: the range token under test [start, hasSize, size]
    parsed,     \* SpecParse: <<>> or the pair parse_range_info returned
    tree,       \* the state of each path of the repository
    known,      \* the revision names git can resolve
    cache,      \* the lru_cache of unchanged_blocks: base_branch -> entry
    objects,    \* number of map objects unchanged_blocks has built
    diffCalls,  \* base_branch -> number of git diff invocations
    first,      \* base_branch -> outcome of its first call: "none", "return", "raise"
    ret,        \* the outcome of the last call of unchanged_blocks
    nCalls,     \* calls made so far
    nChanges,   \* working-tree changes made so far
    header,     \* _report_diff: the captions
    lines_values, \* _report_diff: the rows, as runs of rows of one shape
    end_lines,  \* _report_diff: the footer lines
    prSet,      \* whether os.environ holds GITHUB_PR_NUMBER
    pc,         \* where _report_diff stands
    out         \* the lines written to outfile, in order

diffVars == <<tree, known, cache, objects, diffCalls, first, ret, nCalls, nChanges>>

parseVars == <<tok, parsed>>

reportVars == <<header, lines_values, end_lines, prSet, pc, out>>

vars == <<tok, parsed, tree, known, cache, objects, diffCalls, first, ret, nCalls, nChanges,
          header, lines_values, end_lines, prSet, pc, out>>

NoEntry == [set |-> FALSE, id |-> 0, value |-> <<>>]

\* ret.tree is the repository the call ran in, ret.gitOK whether its git diff
\* (if it ran one) exited with status 0.
NoCall == [rev |-> "", outcome |-> "none", hit |-> FALSE, id |-> 0, value |-> <<>>,
           gitOK |-> TRUE, tree |-> <<>>]

ParseIdle == tok = [start |-> 0, hasSize |-> FALSE, size |-> 0] /\ parsed = <<>>

DiffIdle ==
    /\ tree = [f \in Files |-> Absent]
    /\ known = {}
    /\ cache = [r \in Revs |-> NoEntry]
    /\ objects = 0
    /\ diffCalls = [r \in Revs |-> 0]
    /\ first = [r \in Revs |-> "none"]
    /\ ret = NoCall
    /\ nCalls = 0
    /\ nChanges = 0

ReportIdle ==
    /\ header = <<>>
    /\ lines_values = <<>>
    /\ end_lines = <<>>
    /\ prSet = FALSE
    /\ pc = "idle"
    /\ out = <<>>

(***************************************************************************)
(* SpecParse: parse_range_info applied to the tokens `start` and           *)
(* `start,size`.                                                           *)
(***************************************************************************)
TokenText(t) == IF t.hasSize THEN Str(t.start) \o <<",">> \o Str(t.size) ELSE Str(t.start)

Tokens == [start : 0..MaxNum, hasSize : {TRUE}, size : 0..MaxNum]
          \cup [start : 0..MaxNum, hasSize : {FALSE}, size : {1}]

InitParse ==
    /\ tok \in Tokens
    /\ parsed = <<>>
    /\ DiffIdle
    /\ ReportIdle

ParseRange ==
    /\ parsed = <<>>
    /\ parsed' = parse_range_info(TokenText(tok))
    /\ UNCHANGED <<tok, diffVars, reportVars>>

NextParse == ParseRange

SpecParse == InitParse /\ [][NextParse]_vars

(***************************************************************************)
(* SpecDiff: calls of the memoized unchanged_blocks, interleaved with      *)
(* changes of the working tree and of the revision names.                  *)
(***************************************************************************)
\* Before the first call: one revision name exists, the cache is empty.
DiffStart ==
    /\ known = {"main"}
    /\ cache = [r \in Revs |-> NoEntry]
    /\ objects = 0
    /\ diffCalls = [r \in Revs |-> 0]
    /\ first = [r \in Revs |-> "none"]
    /\ ret = NoCall
    /\ nCalls = 0
    /\ nChanges = 0
    /\ ParseIdle
    /\ ReportIdle

InitDiff ==
    /\ tree \in {t \in [Files -> ModifiedStates \cup OtherStates] :
                    t[FileB] \in OtherStates}
    /\ DiffStart

\* SpecMemo: the same calls and changes, from the trees whose modified file
\* has at most one hunk.
OneHunkStates == {Modified(sc, t) : sc \in {x \in Scripts : Len(x) <= 1}, t \in 0..MaxGap}

InitMemo ==
    /\ tree \in {t \in [Files -> OneHunkStates \cup OtherStates] :
                    t[FileB] \in OtherStates}
    /\ DiffStart

\* unchanged_blocks without its cache.
lru_cache_off(c, rev) == FALSE

\* functools.lru_cache(maxsize=None), line 19: a hit returns the stored object.
lru_cache_hit(c, rev) == c[rev].set

\* A call that misses the cache: r is what the body gave.  A call that
\* raises stores nothing.
Miss(rev, r) ==
    [ret |-> IF r.raised
             THEN [rev |-> rev, outcome |-> "raise", hit |-> FALSE, id |-> 0, value |-> <<>>,
                   gitOK |-> rev \in known, tree |-> tree]
             ELSE [rev |-> rev, outcome |-> "return", hit |-> FALSE, id |-> objects + 1,
                   value |-> r.value, gitOK |-> TRUE, tree |-> tree],
     cache |-> IF r.raised THEN cache
               ELSE [cache EXCEPT ![rev] =
                        [set |-> TRUE, id |-> objects + 1, value |-> r.value]],
     objects |-> IF r.raised THEN objects ELSE objects + 1,
     diffCalls |-> [diffCalls EXCEPT ![rev] = @ + 1],
     first |-> [first EXCEPT ![rev] =
                   IF @ # "none" THEN @ ELSE IF r.raised THEN "raise" ELSE "return"]]

\* unchanged_blocks(rev) through the cache: the outcome of the call and the
\* mapper's state after it.
Memo(rev) ==
    IF lru_cache_hit(cache, rev)
    THEN [ret |-> [rev |-> rev, outcome |-> "return", hit |-> TRUE,
                   id |-> cache[rev].id, value |-> cache[rev].value,
                   gitOK |-> TRUE, tree |-> tree],
          cache |-> cache, objects |-> objects, diffCalls |-> diffCalls, first |-> first]
    ELSE The({Miss(rev, r) : r \in {UnchangedBlocksBody(rev \in known, tree)}})

\* One call unchanged_blocks(rev).
Call(rev) ==
    /\ nCalls < MaxCalls
    /\ nCalls' = nCalls + 1
    /\ \E m \in {Memo(rev)} :
          /\ ret' = m.ret
          /\ cache' = m.cache
          /\ objects' = m.objects
          /\ diffCalls' = m.diffCalls
          /\ first' = m.first
    /\ UNCHANGED <<tree, known, nChanges, parseVars, reportVars>>

\* The user edits the working tree between two calls: a path is reverted to
\* its base content, deleted, or replaced by something unreadable.
TreeChange(f) ==
    /\ nChanges < MaxChanges
    /\ nChanges' = nChanges + 1
    /\ \E st \in IF tree[f].base >= 0
                 THEN {Unchanged(tree[f].base), Removed(tree[f].base, "missing"),
                       Removed(tree[f].base, "unreadable")}
                 ELSE {Absent, Added(MaxSize)} :
          /\ st # tree[f]
          /\ tree' = [tree EXCEPT ![f] = st]
    /\ UNCHANGED <<known, cache, objects, diffCalls, first, ret, nCalls, parseVars, reportVars>>

\* A revision name comes into existence (a branch is fetched or created).
CreateRev(rev) ==
    /\ rev \notin known
    /\ known' = known \cup {rev}
    /\ UNCHANGED <<tree, cache, objects, diffCalls, first, ret, nCalls, nChanges, parseVars, reportVars>>

NextDiff ==
    \/ \E rev \in Revs : Call(rev)
    \/ \E f \in Files : TreeChange(f)
    \/ \E rev \in Revs : CreateRev(rev)

SpecDiff == InitDiff /\ [][NextDiff]_vars

SpecMemo == InitMemo /\ [][NextDiff]_vars

(***************************************************************************)
(* SpecReport, SpecSnippet: one run of _report_diff, from its call in      *)
(* normal mode to its return.  The two differ in the inputs they draw.     *)
(***************************************************************************)
\* self.config.base_revision
base_revision == "main"

\* len(os.environ["GITHUB_PR_NUMBER"])
prLen == 2

\* The repository of a report run: a.py is changed, pkg/m.py is not.
ReportTree ==
    [f \in Files |-> IF f = FileA THEN Modified(<<[gap |-> 1, bs |-> 1, cs |-> 1]>>, 1)
                     ELSE Unchanged(MaxGap)]

\* The name of the i-th run of rows.
NameOf(i) == IF i <= Len(FileOrder) THEN FileOrder[i] ELSE [k \in 1..i |-> "d"]

SameCovs == {"true", "false", "absent"}

Range(start, end, same_cov) == [start |-> start, end |-> end, same_cov |-> same_cov]

RowOf(name, dMiss, missing, source, copies) ==
    [Name |-> name, Stmts |-> 10, Miss |-> 3, dMiss |-> dMiss, Cover |-> 70,
     Missing |-> missing, source |-> source, copies |-> copies]

\* The footer lines of tabular_report, lines 472-480, by their lengths.
EndLineSets == {<<>>, <<[len |-> Len("\n2 files skipped due to complete coverage.")],
                        [len |-> Len("\n1 empty file skipped.")]>>}

\* Whether the loop over the rows calls unchanged_blocks (line 238).
CallsMapper == Has(header, "Missing") /\ lines_values # <<>>

RECURSIVE TotalCopies(_)
TotalCopies(rows) == IF rows = <<>> THEN 0 ELSE Head(rows).copies + TotalCopies(Tail(rows))

\* The calls of line 238 during one pass over the rows: the first may run
\* the diff, the others hit the cache.
MapperCalls ==
    IF CallsMapper THEN Memo(base_revision)
    ELSE [ret |-> ret, cache |-> cache, objects |-> objects, diffCalls |-> diffCalls,
          first |-> first]

MapperOK(m) == ~CallsMapper \/ m.ret.outcome = "return"

BlocksMap(m) == IF CallsMapper THEN m.ret.value ELSE <<>>

MapperStep(m) ==
    /\ ret' = IF CallsMapper /\ TotalCopies(lines_values) > 1
              THEN [m.ret EXCEPT !.hit = TRUE] ELSE m.ret
    /\ cache' = m.cache
    /\ objects' = m.objects
    /\ diffCalls' = m.diffCalls
    /\ first' = m.first
    /\ nCalls' = nCalls + (IF CallsMapper THEN TotalCopies(lines_values) ELSE 0)

WriteLine(kind, len) ==
    [kind |-> kind, short |-> FALSE, lines |-> <<>>, collapsed_lines |-> <<>>, len |-> len]

\* lines 365-372: write(result), the footer and the closing empty line.
Written(result) ==
    <<result>>
    \o (IF end_lines # <<>> THEN <<WriteLine("blank", 0)>> ELSE <<>>)
    \o [k \in 1..Len(end_lines) |-> WriteLine("end_line", end_lines[k].len)]
    \o <<WriteLine("blank", 0)>>

\* One pass of _report_diff over the rows, up to the test of line 355: the
\* pass goes on only if no call of unchanged_blocks raised.
Pass(short, m, result, large) ==
    /\ MapperOK(m)
    /\ TooLarge(short, result) = large
    /\ MapperStep(m)
    /\ IF large THEN UNCHANGED out ELSE out' = out \o Written(result)

Render(short, large) ==
    \E m \in {MapperCalls} :
        \E result \in {Document(header, lines_values, BlocksMap(m), prSet, prLen, short)} :
            Pass(short, m, result, large)

\* Normal mode, the result fits: it is written.
ReportDiffWrite ==
    /\ pc = "start"
    /\ Render(FALSE, FALSE)
    /\ pc' = "done"
    /\ UNCHANGED <<header, lines_values, end_lines, prSet, tree, known, nChanges, parseVars>>

\* Normal mode, the result is over the ceiling: it is dropped and
\* _report_diff calls itself with short=True (line 356).
ReportDiffRecurse ==
    /\ pc = "start"
    /\ Render(FALSE, TRUE)
    /\ pc' = "short"
    /\ UNCHANGED <<header, lines_values, end_lines, prSet, tree, known, nChanges, parseVars>>

\* The inner call, short=True: line 355 does not test the size.
ReportDiffShort ==
    /\ pc = "short"
    /\ Render(TRUE, FALSE)
    /\ pc' = "notice"
    /\ UNCHANGED <<header, lines_values, end_lines, prSet, tree, known, nChanges, parseVars>>

\* Back in the outer call: line 362 writes the notice, line 363 returns.
ReportDiffNotice ==
    /\ pc = "notice"
    /\ out' = Append(out, WriteLine("notice",
                 Len("\n\n*Snippets were omitted because the report was too large*")))
    /\ pc' = "done"
    /\ UNCHANGED <<header, lines_values, end_lines, prSet, diffVars, parseVars>>

NextReport ==
    \/ ReportDiffWrite
    \/ ReportDiffRecurse
    \/ ReportDiffShort
    \/ ReportDiffNotice

ReportStart ==
    /\ pc = "start"
    /\ out = <<>>
    /\ tree = ReportTree
    /\ known = {base_revision}
    /\ cache = [r \in Revs |-> NoEntry]
    /\ objects = 0
    /\ diffCalls = [r \in Revs |-> 0]
    /\ first = [r \in Revs |-> "none"]
    /\ ret = NoCall
    /\ nCalls = 0
    /\ nChanges = 0
    /\ ParseIdle

\* SpecReport: up to MaxRows runs of rows over one source file; the ranges
\* of a row lie at fixed places and vary in their same_cov flags.
ReportSource ==
    <<Code(40), Code(100), EmptyLine, Code(200), Code(100), Spaces(4), Code(100), Code(40)>>

FlagLists == {<<>>, <<"true">>, <<"false">>, <<"absent">>,
              <<"true", "true">>, <<"true", "false">>, <<"absent", "true">>}

RangesOf(flags) == [k \in 1..Len(flags) |-> Range(3 * k - 2, 4 * k - 2, flags[k])]

ReportRows(hdr) ==
    {RowOf(<<>>, d, RangesOf(fl), ReportSource, n) :
        d \in (IF Has(hdr, "D Miss") /\ ~Has(hdr, "Missing") THEN {-1, 2} ELSE {0}),
        fl \in (IF Has(hdr, "Missing") THEN FlagLists ELSE {<<>>}),
        n \in {1, BigCopies}}

InitReport ==
    /\ header \in {Header(d, m) : d \in BOOLEAN, m \in BOOLEAN}
    /\ \E k \in 0..MaxRows :
          lines_values \in {[i \in 1..k |-> [rows[i] EXCEPT !.Name = NameOf(i)]] :
                               rows \in [1..k -> ReportRows(header)]}
    /\ prSet \in BOOLEAN
    /\ end_lines \in EndLineSets
    /\ ReportStart

SpecReport == InitReport /\ [][NextReport]_vars

\* SpecSnippet: one run of rows of a file of up to MaxSrcLines lines, with
\* one range anywhere in the file, alone in its row or beside a range that
\* is a new miss.
LineKinds == {EmptyLine, Spaces(4), Code(100), Code(200)}

Sources ==
    UNION {{src \in [1..n -> LineKinds] :
               Cardinality({i \in 1..n : src[i] # src[1]}) <= 1} : n \in 1..MaxSrcLines}

InitSnippet ==
    /\ header = Header(FALSE, TRUE)
    /\ \E src \in Sources, start \in 0..(MaxSrcLines - 1), end \in 1..MaxSrcLines,
          flag \in SameCovs, others \in {<<>>, <<Range(0, 1, "false")>>},
          n \in {1, BigCopies} :
          /\ start < end
          /\ end <= Len(src)
          /\ lines_values = <<RowOf(FileA, 0, <<Range(start, end, flag)>> \o others, src, n)>>
    /\ prSet \in BOOLEAN
    /\ end_lines = <<>>
    /\ ReportStart

SpecSnippet == InitSnippet /\ [][NextReport]_vars

(***************************************************************************)
(* SpecRetry: the same run of _report_diff, also where base_revision names *)
(* no commit: git diff then fails and the CalledProcessError of            *)
(* unchanged_blocks leaves _report_diff at line 238, before any write.     *)
(* _report_diff is sequential code: a step that can be taken is taken.     *)
(***************************************************************************)
ReportDiffRaise ==
    /\ pc = "start"
    /\ CallsMapper
    /\ \E m \in {MapperCalls} :
          /\ m.ret.outcome = "raise"
          /\ ret' = m.ret
          /\ cache' = m.cache
          /\ objects' = m.objects
          /\ diffCalls' = m.diffCalls
          /\ first' = m.first
    /\ nCalls' = nCalls + 1
    /\ pc' = "raised"
    /\ UNCHANGED <<out, header, lines_values, end_lines, prSet, tree, known, nChanges, parseVars>>

NextRetry ==
    \/ NextReport
    \/ ReportDiffRaise

\* The rows of a retry run: up to MaxRows runs of rows of one shape.
RetryFlagLists == {<<>>, <<"true">>, <<"false">>}

RetryRows(hdr) ==
    {RowOf(<<>>, 0, RangesOf(fl), ReportSource, n) :
        fl \in (IF Has(hdr, "Missing") THEN RetryFlagLists ELSE {<<>>}),
        n \in {1, BigCopies}}

InitRetry ==
    /\ header \in {Header(FALSE, m) : m \in BOOLEAN}
    /\ \E k \in 0..MaxRows, row \in RetryRows(header) :
          lines_values = [i \in 1..k |-> [row EXCEPT !.Name = NameOf(i)]]
    /\ prSet \in BOOLEAN
    /\ end_lines \in EndLineSets
    /\ pc = "start"
    /\ out = <<>>
    /\ tree = ReportTree
    /\ known \in SUBSET {base_revision}
    /\ cache = [r \in Revs |-> NoEntry]
    /\ objects = 0
    /\ diffCalls = [r \in Revs |-> 0]
    /\ first = [r \in Revs |-> "none"]
    /\ ret = NoCall
    /\ nCalls = 0
    /\ nChanges = 0
    /\ ParseIdle

SpecRetry == InitRetry /\ [][NextRetry]_vars /\ WF_vars(NextRetry)

(***************************************************************************)
(* Claims about diff.py.                                                   *)
(***************************************************************************)
\* A call that ran the body of unchanged_blocks and returned its map.
FreshReturn == ret.outcome = "return" /\ ~ret.hit

\* The number of pieces <<starts[k], sizes[k]>> that hold line i.
CoverCount(i, starts, sizes) ==
    Cardinality({k \in 1..Len(starts) : starts[k] <= i /\ i < starts[k] + sizes[k]})

\* Blocks and hunks tile the line range [0, n): every line lies in exactly
\* one piece, no piece leaves the range, and the sizes sum to n.
Tiles(blockStarts, blockSizes, hunkStarts, hunkSizes, n) ==
    /\ \A i \in 0..(n - 1) :
          CoverCount(i, blockStarts, blockSizes) + CoverCount(i, hunkStarts, hunkSizes) = 1
    /\ \A k \in 1..Len(blockStarts) :
          blockStarts[k] >= 0 /\ blockStarts[k] + blockSizes[k] <= n
    /\ SumSeq(blockSizes) + SumSeq(hunkSizes) = n

InBothRevisions(st) == st.inDiff /\ st.base >= 0 /\ st.wt = "file"

\* C1: for every file of the diff present in both revisions, the blocks
\* returned for it together with the hunks' base-side sizes tile the base
\* line range, and together with the hunks' current-side sizes tile the
\* current line range.
C1_BlockTiling ==
    FreshReturn =>
        \A f \in Files :
            InBothRevisions(ret.tree[f]) =>
                /\ f \in DOMAIN ret.value
                /\ LET z  == ret.value[f]
                       hs == ret.tree[f].hunks
                   IN  /\ Tiles(z[1], z[3], [k \in 1..Len(hs) |-> hs[k].base_start],
                                [k \in 1..Len(hs) |-> hs[k].base_size], ret.tree[f].base)
                       /\ Tiles(z[2], z[3], [k \in 1..Len(hs) |-> hs[k].curr_start],
                                [k \in 1..Len(hs) |-> hs[k].curr_size], ret.tree[f].curr)

\* C2: every token `start` or `start,size` other than "0,0" parses to
\* <<start - 1, size>> when size > 0 and to <<start, 0>> when size = 0, the
\* size being 1 when the token has no comma.
C2_RangeParsing ==
    (parsed # <<>> /\ TokenText(tok) # <<"0", ",", "0">>) =>
        LET size == IF tok.hasSize THEN tok.size ELSE 1
        IN  parsed = <<IF size > 0 THEN tok.start - 1 ELSE tok.start, size>>

\* The changed ranges the parse loop collects for the hunks of one file.
ChangedRanges(hunks) ==
    [k \in 1..Len(hunks) |->
        parse_range_info(GitRange("-", hunks[k].base_start, hunks[k].base_size))
        \o parse_range_info(GitRange("+", hunks[k].curr_start, hunks[k].curr_size))]

\* C3: the last block returned for a file is <<base_offset, curr_offset,
\* current line count - curr_offset>> for the cursors left after the last
\* hunk; a file without hunks has the single block <<0, 0, total_lines>>.
C3_TrailingBlock ==
    FreshReturn =>
        \A f \in Files \cap DOMAIN ret.value :
            LET z == ret.value[f]
                n == Len(z[1])
                w == WalkRanges(ChangedRanges(ret.tree[f].hunks), 0, 0, <<>>)
            IN  /\ <<z[1][n], z[2][n], z[3][n]>>
                      = <<w.base_offset, w.curr_offset, ret.tree[f].curr - w.curr_offset>>
                /\ ret.tree[f].hunks = <<>> => n = 1

\* C6: a base revision whose first call returned has had git diff run
\* exactly once; once a revision is cached its entry never changes, git
\* diff is never run for it again, and every call with it returns the
\* cached object.
C6_Memoized ==
    /\ [](\A rev \in Revs : first[rev] = "return" => diffCalls[rev] = 1 /\ cache[rev].set)
    /\ [][\A rev \in Revs :
            cache[rev].set =>
                /\ cache'[rev] = cache[rev]
                /\ diffCalls'[rev] = diffCalls[rev]
                /\ (nCalls' # nCalls /\ ret'.rev = rev) =>
                      /\ ret'.outcome = "return"
                      /\ ret'.id = cache[rev].id
                      /\ ret'.value = cache[rev].value]_vars

\* A cached map returned after the working tree changed, differing from
\* the map a fresh diff would give.
C6_Witness ==
    /\ ret.outcome = "return"
    /\ ret.hit
    /\ nChanges > 0
    /\ ret.tree = tree
    /\ diffCalls[ret.rev] = 1
    /\ UnchangedBlocksBody(TRUE, tree).value # ret.value

\* C7: a call whose git diff succeeded does not raise; every file of the
\* diff has an entry; a file absent at the base has base line count 0 and a
\* file missing or unreadable in the working tree has current line count 0.
C7_ReadFailuresNonFatal ==
    (ret.outcome # "none" /\ ~ret.hit /\ ret.gitOK) =>
        /\ ret.outcome = "return"
        /\ \A f \in Files :
              ret.tree[f].inDiff =>
                  /\ f \in DOMAIN ret.value
                  /\ ret.tree[f].base < 0 => Last(ret.value[f][1]) = 0
                  /\ ret.tree[f].wt # "file" => Last(ret.value[f][2]) = 0

(***************************************************************************)
(* Claims about report.py.                                                 *)
(***************************************************************************)
\* The map the rows were rendered with, once a pass is over.
FinalMap == IF CallsMapper THEN cache[base_revision].value ELSE <<>>

NormalResult == Document(header, lines_values, FinalMap, prSet, prLen, FALSE)

ShortResult == Document(header, lines_values, FinalMap, prSet, prLen, TRUE)

\* The characters written to outfile: every write adds a newline.
RECURSIVE WrittenSize(_)
WrittenSize(o) == IF o = <<>> THEN 0 ELSE Head(o).len + 1 + WrittenSize(Tail(o))

HasNotice(o) == \E j \in 1..Len(o) : o[j].kind = "notice"

\* C4 as stated: when the normal-mode rendering is over the ceiling, the
\* document written is the short-mode rendering, holds the notice and is
\* itself no larger than the ceiling.
C4_SizeCeiling ==
    (pc = "done" /\ NormalResult.len > Ceiling) =>
        /\ out[1] = ShortResult
        /\ HasNotice(out)
        /\ WrittenSize(out) <= Ceiling

\* C4 as amended: when the normal-mode rendering is over the ceiling, the
\* one result written is the short-mode rendering, it is no longer than the
\* normal-mode rendering, and the notice is the last line written.
C4_DegradesToShort ==
    (pc = "done" /\ NormalResult.len > Ceiling) =>
        /\ out[1] = ShortResult
        /\ out[1].short
        /\ \A j \in 2..Len(out) : out[j].kind # "result"
        /\ out[1].len <= NormalResult.len
        /\ Last(out).kind = "notice"

\* A run whose normal-mode result was over the ceiling and whose short-mode
\* document fits under it.
C4_Witness ==
    /\ pc = "done"
    /\ NormalResult.len > Ceiling
    /\ out[1].short
    /\ HasNotice(out)
    /\ WrittenSize(out) <= Ceiling

\* The table lines of `table` that come from the i-th run of rows.
FromRow(table, i) == {j \in 1..Len(table) : table[j].idx = i}

AllSameCov(row) == \A k \in 1..Len(row.Missing) : row.Missing[k].same_cov = "true"

\* C5: with a Missing column, every row is in exactly one of the two
\* tables, and in the collapsed one iff each of its ranges has same_cov true.
C5_RowClassification ==
    (pc = "done" /\ Has(header, "Missing")) =>
        \A i \in 1..Len(lines_values) :
            /\ Cardinality(FromRow(out[1].lines, i))
               + Cardinality(FromRow(out[1].collapsed_lines, i)) = 1
            /\ Cardinality(FromRow(out[1].collapsed_lines, i)) = 1
                  <=> AllSameCov(lines_values[i])
            /\ \A j \in FromRow(out[1].lines, i) :
                  out[1].lines[j].copies = lines_values[i].copies
            /\ \A j \in FromRow(out[1].collapsed_lines, i) :
                  out[1].collapsed_lines[j].copies = lines_values[i].copies

\* A document with both tables, whose primary table holds a row with a
\* range that has same_cov true and a range that lacks the flag.
C5_Witness ==
    /\ pc = "done"
    /\ Has(header, "Missing")
    /\ out[1].collapsed_lines # <<>>
    /\ \E j \in 1..Len(out[1].lines) :
          LET row == lines_values[out[1].lines[j].idx]
          IN  /\ \E k \in 1..Len(row.Missing) : row.Missing[k].same_cov = "true"
              /\ \E k \in 1..Len(row.Missing) : row.Missing[k].same_cov = "absent"
              /\ \A k \in 1..Len(row.Missing) : row.Missing[k].same_cov # "false"

\* All table lines of the result written.
TableLines == out[1].lines \o out[1].collapsed_lines

\* The 1-based numbers of the window lines marked as missing.
MarkedLines(window) == {window[j].src + 1 : j \in {q \in 1..Len(window) : window[q].missing}}

\* C8: the locator of every range names the 1-based inclusive span of the
\* range: the span format_range prints, the lines the body marks with
\* "- ", and one number exactly when the range has one line.
C8_LocatorSpan ==
    pc = "done" =>
        \A j \in 1..Len(TableLines) :
            \A k \in 1..Len(TableLines[j].snippets) :
                LET m   == lines_values[TableLines[j].idx].Missing[k]
                    sn  == TableLines[j].snippets[k]
                IN  /\ sn.loc.single <=> (m.end - m.start = 1)
                    /\ sn.loc.single <=> format_range(m).single
                    /\ sn.loc.first = format_range(m).first
                    /\ ~sn.loc.single => sn.loc.last = format_range(m).last
                    /\ ~sn.short =>
                          MarkedLines(sn.window)
                              = {n \in 1..Len(lines_values[TableLines[j].idx].source) :
                                    sn.loc.first <= n /\ n <= sn.loc.last}

BodySources(body) == {body[j].src : j \in {q \in 1..Len(body) : body[q].src >= 0}}

\* C9: a snippet over its budget is written as its first k lines, the
\* ellipsis line and its last k lines (k = budget / 128), each cut to the
\* fixed width; some line of the snippet is left out and none is repeated.
C9_SnippetTruncation ==
    (pc = "done" /\ ~out[1].short) =>
        \A j \in 1..Len(TableLines) :
            \A i \in 1..Len(TableLines[j].snippets) :
                LET m  == lines_values[TableLines[j].idx].Missing[i]
                    sn == TableLines[j].snippets[i]
                    k  == Limit(TableLines[j].collapse, m) \div LineWidth
                    n  == Len(sn.window)
                IN  sn.truncated =>
                        /\ Len(sn.body) = 2 * k + 1
                        /\ sn.body[k + 1].src = -1
                        /\ \A q \in 1..k :
                              /\ sn.body[q].src = sn.window[q].src
                              /\ sn.body[k + 1 + q].src = sn.window[n - k + q].src
                        /\ \A q \in 1..Len(sn.body) : sn.body[q].len <= LineWidth + 3
                        /\ \E q \in 1..n : sn.window[q].src \notin BodySources(sn.body)
                        /\ Cardinality(BodySources(sn.body)) = Len(sn.body) - 1

SourceOf(j) == lines_values[TableLines[j].idx].source

\* C10 as stated: every blank source line of a snippet window is written as
\* the placeholder, inside the missing range or outside it.
C10_BlankPlaceholder ==
    (pc = "done" /\ ~out[1].short) =>
        \A j \in 1..Len(TableLines) :
            \A i \in 1..Len(TableLines[j].snippets) :
                \A q \in 1..Len(TableLines[j].snippets[i].window) :
                    LET l == TableLines[j].snippets[i].window[q]
                    IN  SourceOf(j)[l.src + 1].ws => l.span

\* A line as written stands for its source line: the placeholder exactly
\* for a blank line outside the missing range, else prefix and line.
WrittenAs(l, s) ==
    /\ l.span <=> (s.ws /\ ~l.missing)
    /\ l.span => l.len = Len("<span/>")
    /\ (~l.span /\ ~l.cut) => l.len = s.len + (IF l.missing THEN 2 ELSE 1)

\* C10 as amended: a blank source line of a snippet window is written as
\* the placeholder iff it lies outside the missing range; inside the range
\* it is written as "- " and the line.  The same holds of the body lines.
C10_BlankOutsideRange ==
    (pc = "done" /\ ~out[1].short) =>
        \A j \in 1..Len(TableLines) :
            \A i \in 1..Len(TableLines[j].snippets) :
                /\ \A q \in 1..Len(TableLines[j].snippets[i].window) :
                      WrittenAs(TableLines[j].snippets[i].window[q],
                                SourceOf(j)[TableLines[j].snippets[i].window[q].src + 1])
                /\ \A q \in 1..Len(TableLines[j].snippets[i].body) :
                      TableLines[j].snippets[i].body[q].src >= 0 =>
                          WrittenAs(TableLines[j].snippets[i].body[q],
                                    SourceOf(j)[TableLines[j].snippets[i].body[q].src + 1])

\* A snippet written with a placeholder for a blank line of the context and
\* with a blank line of the missing range written as "- ".
C10_Witness ==
    /\ pc = "done"
    /\ ~out[1].short
    /\ \E j \in 1..Len(TableLines) :
          \E i \in 1..Len(TableLines[j].snippets) :
              /\ \E q \in 1..Len(TableLines[j].snippets[i].body) :
                    TableLines[j].snippets[i].body[q].span
              /\ \E q \in 1..Len(TableLines[j].snippets[i].body) :
                    /\ TableLines[j].snippets[i].body[q].missing
                    /\ SourceOf(j)[TableLines[j].snippets[i].body[q].src + 1].ws

IsResult(l) == l.kind = "result"

IsEndLine(l) == l.kind = "end_line"

IsNotice(l) == l.kind = "notice"

\* The result _report_diff is to write: the normal-mode one unless it is
\* over the ceiling, else the short-mode one.
DueResult == IF NormalResult.len > Ceiling THEN ShortResult ELSE NormalResult

\* What a finished run has written: one result, first; then every footer
\* line once, in order; the notice, last, exactly on the degraded path.
WrittenOnce ==
    /\ SelectSeq(out, IsResult) = <<DueResult>>
    /\ out[1] = DueResult
    /\ SelectSeq(out, IsEndLine)
           = [k \in 1..Len(end_lines) |-> WriteLine("end_line", end_lines[k].len)]
    /\ Len(SelectSeq(out, IsNotice)) = (IF NormalResult.len > Ceiling THEN 1 ELSE 0)
    /\ NormalResult.len > Ceiling => IsNotice(Last(out))
    /\ \A j \in 2..Len(out) : IsNotice(out[j]) => j = Len(out)

\* One step of the control of _report_diff: the call in normal mode is
\* never entered again, short mode is entered from normal mode only, and
\* the short-mode run ends in the notice with its result written, whatever
\* the size of that result.
RetryStep ==
    /\ pc' # pc => pc' # "start"
    /\ pc' = "short" => pc \in {"start", "short"}
    /\ (pc = "short" /\ pc' # pc) =>
          /\ pc' = "notice"
          /\ SelectSeq(out', IsResult) = <<ShortResult>>

\* C11: _report_diff ends (it returns, or the exception of unchanged_blocks
\* leaves it before any write); it enters short mode at most once and from
\* normal mode only; the short-mode run writes its result without a size
\* test and never recurses; a normal-mode result over the ceiling is never
\* written; a run that returns has written exactly one result, then each
\* footer line once, then the notice if and only if it degraded.
C11_SingleBoundedRetry ==
    /\ <>(pc \in {"done", "raised"})
    /\ [][RetryStep]_vars
    /\ [](\A j \in 1..Len(out) :
             (IsResult(out[j]) /\ ~out[j].short) => out[j].len <= Ceiling)
    /\ [](pc \in {"start", "short", "raised"} => out = <<>>)
    /\ [](pc = "done" => WrittenOnce)

\* A degraded run with footer lines whose short-mode result is itself over
\* the ceiling and was written all the same.
C11_Witness ==
    /\ pc = "done"
    /\ out[1].short
    /\ out[1].len > Ceiling
    /\ end_lines # <<>>
    /\ IsNotice(Last(out))

\* The files named by the "diff --git" lines of the stream of a repository.
DiffFiles(t) == {f \in Files : t[f].inDiff}

\* The repository in which f is the only path git diff reports.
Alone(t, f) == [g \in Files |-> IF g = f THEN t[g] ELSE Absent]

\* C12: the keys of a returned map are exactly the files named by the
\* "diff --git" lines of the stream (no key comes from the flush made at
\* the first such line), and the entry of a file is the one its own section
\* of the stream gives.
C12_MapKeySet ==
    FreshReturn =>
        /\ DOMAIN ret.value = DiffFiles(ret.tree)
        /\ \A f \in DiffFiles(ret.tree) :
              /\ f \in DOMAIN ret.value
              /\ ret.value[f] = UnchangedBlocksBody(TRUE, Alone(ret.tree, f)).value[f]

====
